---- MODULE Spec2Model ----
(***************************************************************************)
(* Rating engine of ferret-stack/odds-calculator (src/elo_calculator.py).  *)
(*                                                                         *)
(* Python floats are modelled as fixed-point numbers: the integer v stands *)
(* for the real number v / Scale.  Ratings are whole points (Python int).  *)
(* Reported rating changes (round(x, 1)) are counted in tenths of a point. *)
(***************************************************************************)
EXTENDS Integers, Sequences, FiniteSets, TLC

\* key_order is the insertion order of the keys of current_elo (a Python dict
\* iterates in insertion order)
VARIABLES current_elo, key_order, elo_history, call, log

vars == <<current_elo, key_order, elo_history, call, log>>

----------------------------------------------------------------------------
(* Bounds of the model *)

\* a band of the table is computed from 1..MaxGames matches
MaxGames == 6
\* fixtures have rating gaps 50 * i, |i| <= MaxBandSteps
MaxBandSteps == 10
\* matches of the history the band table is computed from
MaxBandMatches == 3
\* matches of the history the venue multipliers are computed from
MaxCalibrationMatches == 2
\* calls of one run that calibrates and then prices fixtures
MaxRunCalls == 2
\* entries of the rating history the form metrics are computed from
MaxHistoryLen == 12
\* results scraped over all runs, the days they are dated, and the runs
MaxScraped == 3
MaxDays == 2
MaxRuns == 3
\* matches processed while the store is being read
MaxFrameMatches == 2

\* matches processed in one run
MaxMatches == 2
\* goals scored in one match, both sides together
MaxGoals == 1

\* expected_score is evaluated on ratings 1500 + 40 * i, |i| <= MaxRatingSteps
MaxRatingSteps == 4
\* margin_of_victory_multiplier is evaluated on goal differences 0..MaxGoalDiff
\* and rating differences 100 * i, |i| <= MaxDiffSteps
MaxGoalDiff == 5
MaxDiffSteps == 24

Teams == {"A", "B", "C"}
Scorelines == {s \in (0..MaxGoals) \X (0..MaxGoals) : s[1] + s[2] <= MaxGoals}

----------------------------------------------------------------------------
(* Fixed-point arithmetic standing for Python's float arithmetic *)

Scale == 10 ^ 7
ScaleHi == 10 ^ 4
ScaleLo == 10 ^ 3

Abs(x) == IF x < 0 THEN -x ELSE x
Sgn(x) == IF x < 0 THEN -1 ELSE IF x > 0 THEN 1 ELSE 0

\* a * b / Scale for a, b >= 0, rounded to the nearest unit, without leaving
\* 32-bit integers
MulNat(a, b) ==
    LET ah == a \div ScaleHi
        al == a % ScaleHi
        bh == b \div ScaleLo
        bl == b % ScaleLo
    IN  ah * bh + ((10 * ah * bl + al * bh + (al * bl) \div ScaleLo + ScaleHi \div 2)
                   \div ScaleHi)

\* the float product a * b (the factor of smaller magnitude is the one split
\* finely, which keeps the partial products in range)
MulFx(a, b) ==
    IF Abs(a) >= Abs(b) THEN Sgn(a) * Sgn(b) * MulNat(Abs(a), Abs(b))
    ELSE Sgn(a) * Sgn(b) * MulNat(Abs(b), Abs(a))

\* a * n / m for a fixed-point a and integers n, m (m # 0), rounded to the
\* nearest unit
MulDivNat(a, n, m) == (a \div m) * n + ((a % m) * n + m \div 2) \div m
MulDiv(a, n, m) == Sgn(a) * Sgn(n) * Sgn(m) * MulDivNat(Abs(a), Abs(n), Abs(m))

\* the digits after the point of r / b, for 0 <= r < b
RECURSIVE LongDiv(_, _, _)
LongDiv(r, b, k) ==
    IF k = 0 THEN 0
    ELSE LET t == r * 10
         IN  (t \div b) * (10 ^ (k - 1)) + LongDiv(t % b, b, k - 1)

\* the float quotient a / b for a >= 0, b > 0, rounded to the nearest unit
DivFx(a, b) == ((a \div b) * Scale * 10 + LongDiv(a % b, b, 8) + 5) \div 10

\* e ^ y as its Taylor series, summed until the terms vanish
RECURSIVE ExpSum(_, _, _)
ExpSum(y, term, k) ==
    IF term = 0 THEN 0
    ELSE term + ExpSum(y, Sgn(term) * Sgn(y) * ((MulNat(Abs(term), Abs(y)) + k \div 2) \div k),
                       k + 1)

ExpFx(y) == ExpSum(y, Scale, 1)

\* atanh(1 / m) = sum over odd k of 1 / (k * m^k), with Guard extra units
\* of precision per fixed-point unit
Guard == 2 ^ 6

RECURSIVE AtanhSum(_, _, _)
AtanhSum(pw, m, k) ==
    IF pw = 0 THEN 0
    ELSE pw \div k + AtanhSum(pw \div (m * m), m, k + 2)

\* ln(n) = ln(n-1) + 2 * atanh(1 / (2n-1)), in guarded precision
RECURSIVE LogSum(_)
LogSum(n) ==
    IF n <= 1 THEN 0
    ELSE LogSum(n - 1) + 2 * AtanhSum((Guard * Scale) \div (2 * n - 1), 2 * n - 1, 1)

\* math.log(n) for an integer n >= 1, rounded to the fixed-point unit
LogSeries(n) == (LogSum(n) + Guard \div 2) \div Guard

\* the logarithms of the small integers, evaluated once
LogCache == [n \in 1..10 |-> LogSeries(n)]
LogFx(n) == IF n \in DOMAIN LogCache THEN LogCache[n] ELSE LogSeries(n)

\* 10 ** (x / 400) = e ^ (x * ln(10) / 400)
Ln10 == LogFx(10)
Pow10Fx(x) == ExpFx(MulDiv(Ln10, x, 400))

\* 1 / (1 + 10 ** (x / 400))
LogisticSeries(x) == DivFx(Scale, Scale + Pow10Fx(x))

\* the logistic values for the rating gaps that occur, evaluated once
LogisticCache == [x \in -520..520 |-> LogisticSeries(x)]
Logistic(x) == IF x \in DOMAIN LogisticCache THEN LogisticCache[x] ELSE LogisticSeries(x)

\* a / b rounded to the nearest whole number, halves to the even one
RoundDiv(a, b) ==
    LET q == a \div b
        r == a % b
    IN  IF 2 * r > b \/ (2 * r = b /\ q % 2 = 1) THEN q + 1 ELSE q

----------------------------------------------------------------------------
(* ELOCalculator: configuration (constructor defaults, also the values      *)
(* update_elo_ratings passes)                                               *)

k_factor == 20
home_advantage == 100
use_mov == TRUE
default_elo == 1500

\* the outcome of a call: the value it returns, or the exception it raises
Return(v) == [value |-> v]
Raise(e) == [raised |-> e]
IsError(r) == "raised" \in DOMAIN r

\* dict.get(key, default)
DictGet(d, key, default) == IF key \in DOMAIN d THEN d[key] ELSE default

\* d[key] = value
DictPut(d, key, value) ==
    [k \in DOMAIN d \cup {key} |-> IF k = key THEN value ELSE d[k]]

\* round(x) of a float x: nearest integer, ties to the even one
RoundFx(x) ==
    LET q == x \div Scale
        r == x % Scale
    IN  IF 2 * r > Scale THEN q + 1
        ELSE IF 2 * r < Scale THEN q
        ELSE IF q % 2 = 0 THEN q ELSE q + 1

\* int(n + x): the fraction is dropped
RoundSumTruncates(n, x) == n + x \div Scale

\* round(n + x) for an integer n and a float x
RoundSum(n, x) == n + RoundFx(x)

\* round(x, 1), in tenths
Round1(x) ==
    LET tenth == Scale \div 10
        q == x \div tenth
        r == x % tenth
    IN  IF 2 * r > tenth THEN q + 1
        ELSE IF 2 * r < tenth THEN q
        ELSE IF q % 2 = 0 THEN q ELSE q + 1

\* opponent_effective - effective_elo
effective_gap(team_elo, opponent_elo, is_home) ==
    LET effective_elo == team_elo + (IF is_home THEN home_advantage ELSE 0)
        opponent_effective == opponent_elo + (IF ~is_home THEN home_advantage ELSE 0)
    IN  opponent_effective - effective_elo

\* the opponent never gets the home bonus
expected_score_no_opponent_bonus(team_elo, opponent_elo, is_home) ==
    Logistic(opponent_elo - (team_elo + (IF is_home THEN home_advantage ELSE 0)))

expected_score(team_elo, opponent_elo, is_home) ==
    Logistic(effective_gap(team_elo, opponent_elo, is_home))

margin_of_victory_multiplier(goal_diff, elo_diff) ==
    IF goal_diff = 0 THEN Return(Scale)
    ELSE LET goal_factor == LogFx(Abs(goal_diff) + 1)
             \* (elo_diff * 0.001) + 2.2, in thousandths
             denominator == elo_diff + 2200
         IN  IF denominator = 0 THEN Raise("ZeroDivisionError")
             ELSE Return(MulFx(goal_factor, MulDiv(Scale, 2200, denominator)))

\* the change is computed from the default ratings, not from the current ones
calculate_elo_change_stale(team_elo, opponent_elo, team_goals, opponent_goals, is_home) ==
    LET actual_score == IF team_goals > opponent_goals THEN Scale
                        ELSE IF team_goals < opponent_goals THEN 0
                        ELSE Scale \div 2
        expected == expected_score(default_elo, default_elo, is_home)
        goal_diff == Abs(team_goals - opponent_goals)
        mov_mult == margin_of_victory_multiplier(goal_diff, 0)
    IN  IF use_mov /\ team_goals # opponent_goals
        THEN Return(MulFx(k_factor * mov_mult.value, actual_score - expected))
        ELSE Return(k_factor * (actual_score - expected))

calculate_elo_change(team_elo, opponent_elo, team_goals, opponent_goals, is_home) ==
    LET actual_score == IF team_goals > opponent_goals THEN Scale
                        ELSE IF team_goals < opponent_goals THEN 0
                        ELSE Scale \div 2
        expected == expected_score(team_elo, opponent_elo, is_home)
        goal_diff == Abs(team_goals - opponent_goals)
        elo_diff == IF team_goals > opponent_goals THEN team_elo - opponent_elo
                    ELSE opponent_elo - team_elo
        mov_mult == margin_of_victory_multiplier(goal_diff, elo_diff)
    IN  IF use_mov /\ team_goals # opponent_goals
        THEN IF IsError(mov_mult) THEN mov_mult
             ELSE Return(MulFx(k_factor * mov_mult.value, actual_score - expected))
        ELSE Return(k_factor * (actual_score - expected))

----------------------------------------------------------------------------
(* ELOCalculator: the store and process_match *)

\* self.current_elo.get(team, 0): the default rating is forgotten
pre_match_elo_zero(store, team) == DictGet(store, team, 0)

\* self.current_elo.get(team, self.default_elo)
pre_match_elo(store, team) == DictGet(store, team, default_elo)

\* self.current_elo[away_team] = new_home_elo: the wrong variable is committed
commit_ratings_typo(store, home_team, away_team, new_home_elo, new_away_elo) ==
    DictPut(DictPut(store, home_team, new_home_elo), away_team, new_home_elo)

\* the store is rebuilt from the two new ratings alone
commit_ratings_rebuilds(store, home_team, away_team, new_home_elo, new_away_elo) ==
    [t \in {home_team, away_team} |-> IF t = away_team THEN new_away_elo ELSE new_home_elo]

\* self.current_elo[home_team] = new_home_elo; self.current_elo[away_team] = new_away_elo
commit_ratings(store, home_team, away_team, new_home_elo, new_away_elo) ==
    DictPut(DictPut(store, home_team, new_home_elo), away_team, new_away_elo)

\* the key order of the store after the two assignments: a new key goes to
\* the end, the home team's before the away team's; a known key stays in place
insert_key(order, team) ==
    IF \E i \in 1..Len(order) : order[i] = team THEN order ELSE Append(order, team)

commit_order(order, home_team, away_team) ==
    insert_key(insert_key(order, home_team), away_team)

\* the histories are assigned a fresh one-entry list instead of appended to
record_history_overwrites(history, home_team, away_team, match_date, new_home_elo, new_away_elo) ==
    LET keys == DOMAIN history \cup {home_team, away_team}
    IN  [t \in keys |->
            IF t = home_team THEN <<[date |-> match_date, elo |-> new_home_elo]>>
            ELSE IF t = away_team THEN <<[date |-> match_date, elo |-> new_away_elo]>>
            ELSE history[t]]

\* each history gets the other side's new rating
record_history_swapped(history, home_team, away_team, match_date, new_home_elo, new_away_elo) ==
    LET keys == DOMAIN history \cup {home_team, away_team}
        with_keys == [t \in keys |-> DictGet(history, t, << >>)]
        home_done == [with_keys EXCEPT ![home_team] =
                         Append(@, [date |-> match_date, elo |-> new_away_elo])]
    IN  [home_done EXCEPT ![away_team] =
            Append(@, [date |-> match_date, elo |-> new_home_elo])]

\* the update_history block: both histories exist afterwards, and each gets
\* one entry appended
record_history(history, home_team, away_team, match_date, new_home_elo, new_away_elo) ==
    LET keys == DOMAIN history \cup {home_team, away_team}
        with_keys == [t \in keys |-> DictGet(history, t, << >>)]
        home_done == [with_keys EXCEPT ![home_team] =
                         Append(@, [date |-> match_date, elo |-> new_home_elo])]
    IN  [home_done EXCEPT ![away_team] =
            Append(@, [date |-> match_date, elo |-> new_away_elo])]

\* the second half of process_match, from "Update current ELO" on: the store
\* it leaves and what it returns; when a change could not be computed, the
\* exception has left the store as it was
update_and_return(store, history, args, home_change, away_change) ==
    IF IsError(home_change) \/ IsError(away_change)
    THEN [current_elo |-> store,
          elo_history |-> history,
          call |-> [op |-> "process_match", raised |-> TRUE, args |-> args,
                    result |-> << >>]]
    ELSE LET new_home_elo == RoundSum(args.home_elo, home_change.value)
             new_away_elo == RoundSum(args.away_elo, away_change.value)
         IN  [current_elo |->
                  commit_ratings(store, args.home_team, args.away_team,
                                 new_home_elo, new_away_elo),
              elo_history |->
                  IF args.update_history
                  THEN record_history(history, args.home_team, args.away_team,
                                      args.match_date, new_home_elo, new_away_elo)
                  ELSE history,
              call |-> [op |-> "process_match", raised |-> FALSE, args |-> args,
                        result |-> <<new_home_elo, new_away_elo,
                                     Round1(home_change.value),
                                     Round1(away_change.value)>>]]

\* the away side's change is computed as if it played at home too
process_match_both_at_home(store, history, home_team, away_team, home_goals, away_goals, match_date, update_history) ==
    LET home_elo == pre_match_elo(store, home_team)
        away_elo == pre_match_elo(store, away_team)
    IN  update_and_return(
            store, history,
            [home_team |-> home_team, away_team |-> away_team,
             home_goals |-> home_goals, away_goals |-> away_goals,
             match_date |-> match_date, update_history |-> update_history,
             home_elo |-> home_elo, away_elo |-> away_elo],
            calculate_elo_change(home_elo, away_elo, home_goals, away_goals, TRUE),
            calculate_elo_change(away_elo, home_elo, away_goals, home_goals, TRUE))

\* process_match as a function of the store
process_match(store, history, home_team, away_team, home_goals, away_goals, match_date, update_history) ==
    LET home_elo == pre_match_elo(store, home_team)
        away_elo == pre_match_elo(store, away_team)
    IN  update_and_return(
            store, history,
            [home_team |-> home_team, away_team |-> away_team,
             home_goals |-> home_goals, away_goals |-> away_goals,
             match_date |-> match_date, update_history |-> update_history,
             home_elo |-> home_elo, away_elo |-> away_elo],
            calculate_elo_change(home_elo, away_elo, home_goals, away_goals, TRUE),
            calculate_elo_change(away_elo, home_elo, away_goals, home_goals, FALSE))

Init ==
    /\ current_elo = << >>
    /\ key_order = << >>
    /\ elo_history = << >>
    /\ call = [op |-> "init"]
    /\ log = << >>

\* one call of process_match on the engine's store
ProcessMatchCall(home_team, away_team, home_goals, away_goals, match_date, update_history) ==
    \E after \in {process_match(current_elo, elo_history, home_team, away_team,
                                home_goals, away_goals, match_date, update_history)} :
        /\ current_elo' = after.current_elo
        /\ key_order' = IF after.call.raised THEN key_order
                         ELSE commit_order(key_order, home_team, away_team)
        /\ elo_history' = after.elo_history
        /\ call' = after.call
        /\ log' = Append(log, after.call)

\* the feed is chronological: the k-th match processed is dated day k
ProcessMatch ==
    /\ Len(log) < MaxMatches
    /\ \E home_team \in Teams : \E away_team \in Teams \ {home_team} :
       \E score \in Scorelines, update_history \in BOOLEAN :
            ProcessMatchCall(home_team, away_team, score[1], score[2],
                             Len(log) + 1, update_history)

Next == ProcessMatch

Spec == Init /\ [][Next]_vars
----------------------------------------------------------------------------
(* Properties of process_match on the store (specification Spec) *)

Participants(c) == {c.args.home_team, c.args.away_team}
Completed(c) == c.op = "process_match" /\ ~c.raised
HistoryOf(t) == DictGet(elo_history, t, << >>)

\* C1: process_match on a team that is absent from the store reads 1500 as
\* that team's pre-match rating, does not raise, and leaves the team in the
\* store; for the home side, the away side, or both.
C1_UnknownTeamSeeded ==
    [][log' # log =>
          LET a == call'.args
          IN  /\ call'.op = "process_match"
              /\ (a.home_team \notin DOMAIN current_elo \/ a.away_team \notin DOMAIN current_elo)
                    => ~call'.raised
              /\ a.home_team \notin DOMAIN current_elo => a.home_elo = 1500
              /\ a.away_team \notin DOMAIN current_elo => a.away_elo = 1500
              /\ a.home_team \in DOMAIN current_elo => a.home_elo = current_elo[a.home_team]
              /\ a.away_team \in DOMAIN current_elo => a.away_elo = current_elo[a.away_team]
              /\ ~call'.raised => Participants(call') \subseteq DOMAIN current_elo'
    ]_vars

\* a known away side has just met a home side that was not in the store
C1_Witness ==
    /\ Len(log) = 2
    /\ Completed(log[2])
    /\ log[2].args.home_team \notin Participants(log[1])
    /\ log[2].args.away_team \in Participants(log[1])
    /\ log[2].args.home_elo = 1500
    /\ log[2].args.away_elo # 1500
    /\ Cardinality(DOMAIN current_elo) = 3

\* C2: every rating in current_elo is an integer, and the two ratings a
\* call returns are the values it has just committed for the home and the
\* away team.
C2_RatingsIntegerAndReturned ==
    /\ \A t \in DOMAIN current_elo : current_elo[t] \in Int
    /\ Completed(call) =>
          /\ call.result[1] = current_elo[call.args.home_team]
          /\ call.result[2] = current_elo[call.args.away_team]

\* a second match has moved both ratings away from each other
C2_Witness ==
    /\ Len(log) = 2
    /\ Completed(call)
    /\ call.result[1] # call.result[2]
    /\ call.result[1] # call.args.home_elo
    /\ current_elo[call.args.home_team] = call.result[1]

\* the entries process_match has written for team t over the calls lg: one
\* (match date, committed rating) per call t took part in; with recorded_only,
\* only the calls made with update_history = True count
RECURSIVE EntriesWritten(_, _, _)
EntriesWritten(t, lg, recorded_only) ==
    IF lg = << >> THEN << >>
    ELSE LET c == lg[Len(lg)]
             before == EntriesWritten(t, SubSeq(lg, 1, Len(lg) - 1), recorded_only)
         IN  IF /\ Completed(c)
                /\ t \in Participants(c)
                /\ (recorded_only => c.args.update_history)
             THEN Append(before, [date |-> c.args.match_date,
                                  elo |-> IF t = c.args.home_team THEN c.result[1]
                                          ELSE c.result[2]])
             ELSE before

\* C3 as stated: every call appends exactly one entry (match date, committed
\* rating) to the history of each participant and leaves the earlier entries
\* as they are, so a history holds one entry per match its team took part in.
C3_EveryCallAppends ==
    \A t \in Teams : HistoryOf(t) = EntriesWritten(t, log, FALSE)

\* C3 (amended): every call made with update_history = True appends exactly
\* one entry (match date, committed rating) to the history of each
\* participant, a call made with update_history = False writes none, and no
\* call changes, reorders or removes an earlier entry; so a history holds one
\* entry per recorded match its team took part in.
C3_RecordedCallsAppend ==
    /\ \A t \in Teams : HistoryOf(t) = EntriesWritten(t, log, TRUE)
    /\ \A t \in Teams :
          Len(HistoryOf(t)) =
              Cardinality({i \in 1..Len(log) :
                              /\ log[i].args.update_history
                              /\ t \in Participants(log[i])})

\* a team has played two recorded matches and holds both entries, in order
C3_Witness ==
    \E t \in Teams :
        /\ Len(log) = 2
        /\ log[1].args.update_history /\ log[2].args.update_history
        /\ t \in Participants(log[1]) \cap Participants(log[2])
        /\ Len(HistoryOf(t)) = 2
        /\ HistoryOf(t)[1].date = 1 /\ HistoryOf(t)[2].date = 2
        /\ HistoryOf(t)[1].elo # HistoryOf(t)[2].elo

\* C4 as stated: for every team in the store the rating in the last entry of
\* its history equals its current rating.
C4_LastEntryIsCurrent ==
    \A t \in DOMAIN current_elo :
        /\ HistoryOf(t) # << >>
        /\ HistoryOf(t)[Len(HistoryOf(t))].elo = current_elo[t]

\* the latest call team t took part in was made with update_history = True
LatestRecorded(t) ==
    LET played == {i \in 1..Len(log) : t \in Participants(log[i])}
    IN  /\ played # {}
        /\ \A i \in played : (\A j \in played : j <= i) => log[i].args.update_history

\* C4 (amended): for every team in the store whose latest match was
\* processed with update_history = True, the rating in the last entry of its
\* history equals its current rating.
C4_LastRecordedEntryIsCurrent ==
    \A t \in DOMAIN current_elo :
        LatestRecorded(t) =>
            /\ HistoryOf(t) # << >>
            /\ HistoryOf(t)[Len(HistoryOf(t))].elo = current_elo[t]

\* a team's rating has moved twice and its last entry holds the second value
C4_Witness ==
    \E t \in DOMAIN current_elo :
        /\ Len(log) = 2
        /\ LatestRecorded(t)
        /\ Len(HistoryOf(t)) = 2
        /\ HistoryOf(t)[2].elo = current_elo[t]
        /\ HistoryOf(t)[1].elo # current_elo[t]

\* C7: with K = 20 and home advantage 100, a 0-0 draw between a home side and
\* an away side both rated 1500 reports changes of -2.8 and +2.8 and commits
\* the nearest integers, 1497 and 1503.
C7_DrawAtLevelRatings ==
    (/\ Completed(call)
     /\ call.args.home_goals = 0 /\ call.args.away_goals = 0
     /\ call.args.home_elo = 1500 /\ call.args.away_elo = 1500)
    => /\ k_factor = 20 /\ home_advantage = 100
       /\ call.result = <<1497, 1503, -28, 28>>
       /\ current_elo[call.args.home_team] = 1497
       /\ current_elo[call.args.away_team] = 1503

\* A (home) and B (away), both new, have drawn 0-0
C7_Witness ==
    /\ Completed(call)
    /\ call.args.home_team = "A" /\ call.args.away_team = "B"
    /\ call.args.home_goals = 0 /\ call.args.away_goals = 0
    /\ call.args.home_elo = 1500 /\ call.args.away_elo = 1500
    /\ current_elo = [A |-> 1497, B |-> 1503]
----------------------------------------------------------------------------
(* Order of processing: a fixture and its return fixture, each won 2-0     *)
(* (specification SpecOrder)                                               *)

OrderMatch ==
    /\ Len(log) < 2
    /\ \E home_team \in Teams : \E away_team \in Teams \ {home_team} :
       \E score \in {<<2, 0>>, <<0, 2>>} :
            ProcessMatchCall(home_team, away_team, score[1], score[2], Len(log) + 1, TRUE)

NextOrder == OrderMatch

SpecOrder == Init /\ [][NextOrder]_vars

\* the store a fresh engine holds after processing the calls lg in order
RECURSIVE ReplayStore(_)
ReplayStore(lg) ==
    IF lg = << >> THEN [current_elo |-> << >>, elo_history |-> << >>]
    ELSE LET before == ReplayStore(SubSeq(lg, 1, Len(lg) - 1))
             a == lg[Len(lg)].args
         IN  process_match(before.current_elo, before.elo_history,
                           a.home_team, a.away_team, a.home_goals, a.away_goals,
                           a.match_date, a.update_history)

WinnerAtHome(c) == c.args.home_goals > c.args.away_goals
Winner(c) == IF WinnerAtHome(c) THEN c.args.home_team ELSE c.args.away_team
Margin(c) == Abs(c.args.home_goals - c.args.away_goals)

\* two matches between the same two teams, each won 2-0, by a different side
ReturnFixtures ==
    /\ Len(log) = 2
    /\ Completed(log[1]) /\ Completed(log[2])
    /\ Participants(log[1]) = Participants(log[2])
    /\ Winner(log[1]) # Winner(log[2])
    /\ Margin(log[1]) = 2 /\ Margin(log[2]) = 2
    /\ k_factor = 20 /\ home_advantage = 100 /\ use_mov

ReversedOrderStore == ReplayStore(<<log[2], log[1]>>).current_elo

\* C5 as stated: for each choice of the home side of each match, "A beats B
\* 2-0" then "B beats A 2-0" ends with other ratings than the reverse order.
C5_OrderMatters ==
    ReturnFixtures => current_elo # ReversedOrderStore

\* C5 (amended): the two orders end with different ratings for each choice
\* of the home sides but one: when each winner plays at home, both orders
\* end with both teams back at 1500.
C5_OrderMattersUnlessBothWinAtHome ==
    ReturnFixtures =>
        IF WinnerAtHome(log[1]) /\ WinnerAtHome(log[2])
        THEN /\ current_elo = ReversedOrderStore
             /\ \A t \in Participants(log[1]) : current_elo[t] = 1500
        ELSE current_elo # ReversedOrderStore

\* A has beaten B 2-0 away, then B has beaten A 2-0 away
C5_Witness ==
    /\ ReturnFixtures
    /\ Winner(log[1]) = "A" /\ Winner(log[2]) = "B"
    /\ ~WinnerAtHome(log[1]) /\ ~WinnerAtHome(log[2])
    /\ current_elo # ReversedOrderStore

----------------------------------------------------------------------------
(* expected_score as a function (specification SpecExpected) *)

RatingSamples == {1500 + 40 * i : i \in -MaxRatingSteps..MaxRatingSteps}

NoStore ==
    /\ current_elo = << >>
    /\ key_order = << >>
    /\ elo_history = << >>
    /\ log = << >>

InitExpected ==
    /\ NoStore
    /\ \E team_elo \in RatingSamples, opponent_elo \in RatingSamples, is_home \in BOOLEAN :
          call = [op |-> "expected_score", pending |-> TRUE,
                  args |-> <<team_elo, opponent_elo, is_home>>]

\* the call and the opponent's call for the same match
ExpectedScoreBothSides ==
    /\ call.op = "expected_score" /\ call.pending
    /\ call' = [op |-> "expected_score", pending |-> FALSE, args |-> call.args,
                result |-> expected_score(call.args[1], call.args[2], call.args[3]),
                opponent |-> expected_score(call.args[2], call.args[1], ~call.args[3]),
                gap |-> effective_gap(call.args[1], call.args[2], call.args[3]),
                opponent_gap |-> effective_gap(call.args[2], call.args[1], ~call.args[3])]
    /\ UNCHANGED <<current_elo, key_order, elo_history, log>>

NextExpected == ExpectedScoreBothSides

SpecExpected == InitExpected /\ [][NextExpected]_vars

\* one millionth: the fixed-point results carry about seven digits
Tolerance == Scale \div (10 ^ 6)

\* C6: expected_score(A, B, is_home) + expected_score(B, A, not is_home) is
\* 1.0 for all ratings A, B and either is_home: whichever side is at home
\* gets the bonus in both calls, so the two calls evaluate the logistic curve
\* at opposite gaps, and the two results add up to 1.0 (to the precision of
\* the arithmetic).
C6_ExpectedScoresSumToOne ==
    (call.op = "expected_score" /\ ~call.pending) =>
        /\ call.gap = -call.opponent_gap
        /\ Abs(call.result + call.opponent - Scale) <= Tolerance
        /\ call.result > 0 /\ call.result < Scale

\* the home side at 1460 against 1540: the bonus outweighs the deficit
C6_Witness ==
    /\ call.op = "expected_score" /\ ~call.pending
    /\ call.args = <<1460, 1540, TRUE>>
    /\ call.result > Scale \div 2
    /\ call.opponent < Scale \div 2

----------------------------------------------------------------------------
(* margin_of_victory_multiplier as a function (specification SpecMov) *)

EloDiffSamples == {100 * i : i \in -MaxDiffSteps..MaxDiffSteps}

InitMov ==
    /\ NoStore
    /\ \E goal_diff \in 0..MaxGoalDiff, elo_diff \in EloDiffSamples :
          call = [op |-> "margin_of_victory_multiplier", pending |-> TRUE,
                  args |-> <<goal_diff, elo_diff>>]

\* the call, and the call for one goal more at the same rating difference
MarginOfVictory ==
    /\ call.op = "margin_of_victory_multiplier" /\ call.pending
    /\ call' = [op |-> "margin_of_victory_multiplier", pending |-> FALSE,
                args |-> call.args,
                result |-> margin_of_victory_multiplier(call.args[1], call.args[2]),
                one_more |-> margin_of_victory_multiplier(call.args[1] + 1, call.args[2])]
    /\ UNCHANGED <<current_elo, key_order, elo_history, log>>

NextMov == MarginOfVictory

SpecMov == InitMov /\ [][NextMov]_vars

MovEvaluated == call.op = "margin_of_victory_multiplier" /\ ~call.pending

\* C8: margin_of_victory_multiplier(0, d) is exactly 1.0 for every d, and for
\* every d the multiplier is strictly increasing in the goal difference g
\* over g >= 1.
C8_OneAtZeroAndIncreasing ==
    MovEvaluated =>
        /\ call.args[1] = 0 => call.result = Return(Scale)
        /\ call.args[1] >= 1 =>
              /\ ~IsError(call.result) /\ ~IsError(call.one_more)
              /\ call.one_more.value > call.result.value

\* C9: for every g >= 0 and every winner-minus-loser rating difference d,
\* negative ones included, margin_of_victory_multiplier(g, d) returns a
\* finite value >= 0 and never divides by zero.
C9_FiniteAndNonNegative ==
    MovEvaluated =>
        /\ ~IsError(call.result)
        /\ call.result.value >= 0
----------------------------------------------------------------------------
(* get_elo_band on a loaded store (specification SpecBand) *)

Min(a, b) == IF a <= b THEN a ELSE b

\* min(int(diff // 50), 10): the bands are counted from 0
elo_band_from_zero(diff) == Min(diff \div 50, 10)

\* min(int(diff // 50) + 1, 10)
elo_band(diff) == Min(diff \div 50 + 1, 10)

get_current_elo(store, team) == DictGet(store, team, default_elo)
get_elo_diff(store, team1, team2) ==
    Abs(get_current_elo(store, team1) - get_current_elo(store, team2))
get_elo_band(store, team1, team2) == elo_band(get_elo_diff(store, team1, team2))

\* ratings a store may have been loaded with; their gaps include 0, 49, 50,
\* 449, 450 and 10000
BandRatings == {1500, 1549, 1550, 1949, 1950, 11500}

\* the orders in which a file can list the teams of a set
KeyOrders(known) ==
    {order \in [1..Cardinality(known) -> known] :
        \A i, j \in DOMAIN order : i # j => order[i] # order[j]}

InitBand ==
    /\ \E known \in SUBSET Teams :
          /\ current_elo \in [known -> BandRatings]
          /\ key_order \in KeyOrders(known)
    /\ elo_history = << >>
    /\ log = << >>
    /\ call = [op |-> "init"]

GetEloBand ==
    /\ call.op = "init"
    /\ \E team1 \in Teams, team2 \in Teams :
          call' = [op |-> "get_elo_band", args |-> <<team1, team2>>,
                   result |-> get_elo_band(current_elo, team1, team2)]
    /\ UNCHANGED <<current_elo, key_order, elo_history, log>>

NextBand == GetEloBand

SpecBand == InitBand /\ [][NextBand]_vars

\* the absolute rating gap of two teams, an unknown team counting as 1500
Gap(team1, team2) ==
    Abs((IF team1 \in DOMAIN current_elo THEN current_elo[team1] ELSE 1500)
        - (IF team2 \in DOMAIN current_elo THEN current_elo[team2] ELSE 1500))

----------------------------------------------------------------------------
(* get_rankings (specification SpecRank) *)

\* self.current_elo.items(): the (team, rating) pairs in insertion order
items(store, order) == [i \in 1..Len(order) |-> <<order[i], store[order[i]]>>]

\* where a stable sort in descending order puts the next item of the input:
\* behind every item already placed whose rating is at least as high
RECURSIVE place_descending(_, _)
place_descending(placed, item) ==
    IF placed = << >> THEN <<item>>
    ELSE IF Head(placed)[2] >= item[2]
         THEN <<Head(placed)>> \o place_descending(Tail(placed), item)
         ELSE <<item>> \o placed

\* the items are returned as the store iterates them, unsorted
sorted_teams_unsorted(store, order) == items(store, order)

\* sorted(..., key=lambda x: x[1], reverse=True): Python's sort is stable, and
\* with reverse=True items of equal key keep the order of the input
RECURSIVE sorted_descending(_)
sorted_descending(pairs) ==
    IF pairs = << >> THEN << >>
    ELSE place_descending(sorted_descending(SubSeq(pairs, 1, Len(pairs) - 1)),
                          pairs[Len(pairs)])

sorted_teams(store, order) == sorted_descending(items(store, order))

\* [(team, elo, rank + 1) for rank, (team, elo) in enumerate(sorted_teams)]
get_rankings(store, order) ==
    LET ranked == sorted_teams(store, order)
    IN  [i \in 1..Len(ranked) |-> <<ranked[i][1], ranked[i][2], (i - 1) + 1>>]

GetRankings ==
    /\ call.op = "init"
    /\ call' = [op |-> "get_rankings", result |-> get_rankings(current_elo, key_order)]
    /\ UNCHANGED <<current_elo, key_order, elo_history, log>>

NextRank == GetRankings

\* the store was loaded from a file, in the order of the file
SpecRank == InitBand /\ [][NextRank]_vars

\* C11: get_rankings returns every team of the store exactly once, with its
\* current rating, ordered by rating non-increasing, and the rank of an entry
\* is its position counted from 1 (the ranks are exactly 1..n)
C11_RankingIsSortedPermutation ==
    call.op = "get_rankings" =>
        LET r == call.result
        IN  /\ Len(r) = Cardinality(DOMAIN current_elo)
            /\ \A t \in DOMAIN current_elo :
                  Cardinality({i \in 1..Len(r) : r[i][1] = t}) = 1
            /\ \A i \in 1..Len(r) :
                  /\ r[i][1] \in DOMAIN current_elo
                  /\ r[i][2] = current_elo[r[i][1]]
                  /\ r[i][3] = i
            /\ \A i \in 1..Len(r), j \in 1..Len(r) : i < j => r[i][2] >= r[j][2]

\* a ranking of three teams, two of them level
C11_Witness ==
    /\ call.op = "get_rankings"
    /\ Len(call.result) = 3
    /\ call.result[1][2] > call.result[2][2]
    /\ call.result[2][2] = call.result[3][2]

\* C12: the ranking is a function of the team -> rating mapping alone: a store
\* holding the same mapping with its teams inserted in any other order gets
\* the same ranking
C12_RankingIndependentOfInsertionOrder ==
    call.op = "get_rankings" =>
        \A order \in KeyOrders(DOMAIN current_elo) :
            get_rankings(current_elo, order) = call.result

----------------------------------------------------------------------------
(* OddsCalculator.calculate_elo_bands (specification SpecBands)            *)
(* Of a match the function reads elo_band and winner, and the markets that *)
(* are left out here (goals, booking points); of a row only band,          *)
(* total_games and the win/draw percentages are kept.                      *)

\* elo_band of a match without ratings
NoBand == 0

\* round(count / total, 4) as a fixed-point number: what a band table holds
Pct(count, total) == RoundDiv(count * 10000, total) * (Scale \div 10000)

\* sum(1 for m in band_matches if m.get('winner') == outcome)
count_winner(band_matches, outcome) ==
    Cardinality({i \in 1..Len(band_matches) : band_matches[i].winner = outcome})

\* the row of a band with matches
counted_row(band, band_matches) ==
    LET total == Len(band_matches)
    IN  [band |-> band,
         total_games |-> total,
         stronger_win_pct |-> Pct(count_winner(band_matches, "stronger"), total),
         draw_pct |-> Pct(count_winner(band_matches, "draw"), total),
         weaker_win_pct |-> Pct(count_winner(band_matches, "weaker"), total)]

\* the row of a band without matches ("No data for this band yet")
empty_row(band) ==
    [band |-> band,
     total_games |-> 0,
     home_win_pct |-> 333 * (Scale \div 1000),
     draw_pct |-> 333 * (Scale \div 1000),
     away_win_pct |-> 334 * (Scale \div 1000)]

calculate_elo_bands(matches_data) ==
    [band \in 1..10 |->
        LET IsInBand(m) == m.elo_band = band
            band_matches == SelectSeq(matches_data, IsInBand)
        IN  IF band_matches # << >> THEN counted_row(band, band_matches)
            ELSE empty_row(band)]

\* the bands and results of the matches of a history
BandSamples == {NoBand, 1, 10}
Winners == {"stronger", "draw", "weaker"}
BandMatches == [elo_band : BandSamples, winner : Winners]

InitBands ==
    /\ NoStore
    /\ \E n \in 0..MaxBandMatches : \E matches_data \in [1..n -> BandMatches] :
          call = [op |-> "matches_data", args |-> matches_data]

CalculateEloBands ==
    /\ call.op = "matches_data"
    /\ call' = [op |-> "calculate_elo_bands", args |-> call.args,
                result |-> calculate_elo_bands(call.args)]
    /\ UNCHANGED <<current_elo, key_order, elo_history, log>>

NextBands == CalculateEloBands

SpecBands == InitBands /\ [][NextBands]_vars

\* C18: the table computed by calculate_elo_bands has the band numbers 1..10,
\* one row each, and every row, of a band with matches or without, carries
\* stronger_win_pct, draw_pct and weaker_win_pct, which sum to 1.0
C18_TenRowsOfDistributions ==
    call.op = "calculate_elo_bands" =>
        /\ Len(call.result) = 10
        /\ \A i \in 1..10 :
              LET row == call.result[i]
              IN  /\ row.band = i
                  /\ {"stronger_win_pct", "draw_pct", "weaker_win_pct"} \subseteq DOMAIN row
                  /\ row.stronger_win_pct + row.draw_pct + row.weaker_win_pct = Scale

----------------------------------------------------------------------------
(* Venue-adjusted probabilities and fair odds (specification SpecVenue)    *)
(* Probabilities inside a computation are fixed-point numbers (v / Scale); *)
(* a reported probability (round(p, 4)) is counted in ten-thousandths and  *)
(* reported odds (round(x, 2)) in hundredths.                              *)

\* the multipliers, in hundredths
HOME_ADVANTAGE_MULTIPLIER == 111
AWAY_DISADVANTAGE_MULTIPLIER == 89
DRAW_HOME_MULTIPLIER == 95
DRAW_AWAY_MULTIPLIER == 105

\* round(p, 4) cuts the digits off instead of rounding
Round4Truncates(p) == p \div (Scale \div 10000)

\* round(p, 4) of a fixed-point probability, in ten-thousandths
Round4(p) == RoundDiv(p, Scale \div 10000)

\* the stronger side's multiplier is given to the weaker side as well
adjust_probability_same_for_both(base_prob, is_stronger_team_home, market) ==
    IF market = "draw"
    THEN MulDiv(base_prob, IF is_stronger_team_home THEN DRAW_HOME_MULTIPLIER
                           ELSE DRAW_AWAY_MULTIPLIER, 100)
    ELSE MulDiv(base_prob, IF is_stronger_team_home THEN HOME_ADVANTAGE_MULTIPLIER
                           ELSE AWAY_DISADVANTAGE_MULTIPLIER, 100)

adjust_probability_for_venue(base_prob, is_stronger_team_home, market) ==
    IF market = "stronger_win"
    THEN IF is_stronger_team_home
         THEN MulDiv(base_prob, HOME_ADVANTAGE_MULTIPLIER, 100)
         ELSE MulDiv(base_prob, AWAY_DISADVANTAGE_MULTIPLIER, 100)
    ELSE IF market = "weaker_win"
    THEN IF is_stronger_team_home
         THEN MulDiv(base_prob, AWAY_DISADVANTAGE_MULTIPLIER, 100)
         ELSE MulDiv(base_prob, HOME_ADVANTAGE_MULTIPLIER, 100)
    ELSE IF market = "draw"
    THEN IF is_stronger_team_home
         THEN MulDiv(base_prob, DRAW_HOME_MULTIPLIER, 100)
         ELSE MulDiv(base_prob, DRAW_AWAY_MULTIPLIER, 100)
    ELSE base_prob

\* for band in elo_bands: if band['band'] == band_num: ...; break
\* the positions of the table that hold the band
band_positions(elo_bands, band_num) ==
    {i \in 1..Len(elo_bands) : elo_bands[i].band = band_num}

first_position(positions) == CHOOSE i \in positions : \A j \in positions : i <= j

\* "Get base probabilities", "Apply venue adjustment" and "Normalize": the
\* three adjusted values divided by their sum
normalize_for_venue(band_data, is_stronger_home) ==
    IF ~({"stronger_win_pct", "weaker_win_pct", "draw_pct"} \subseteq DOMAIN band_data)
    THEN Raise("KeyError")
    ELSE
    LET stronger_adj == adjust_probability_for_venue(
                            band_data.stronger_win_pct, is_stronger_home, "stronger_win")
        weaker_adj == adjust_probability_for_venue(
                            band_data.weaker_win_pct, is_stronger_home, "weaker_win")
        draw_adj == adjust_probability_for_venue(
                            band_data.draw_pct, is_stronger_home, "draw")
        total == stronger_adj + weaker_adj + draw_adj
    IN  IF total = 0 THEN Raise("ZeroDivisionError")
        ELSE Return([stronger |-> DivFx(stronger_adj, total),
                     weaker |-> DivFx(weaker_adj, total),
                     draw |-> DivFx(draw_adj, total)])

get_venue_adjusted_probabilities(home_elo, away_elo, elo_bands) ==
    LET elo_diff == Abs(home_elo - away_elo)
        band_num == Min(elo_diff \div 50 + 1, 10)
        positions == band_positions(elo_bands, band_num)
        is_stronger_home == home_elo >= away_elo
    IN  IF positions = {}
        THEN Return([home_win |-> 3330, draw |-> 3330, away_win |-> 3340])
        ELSE LET adjusted == normalize_for_venue(
                                 elo_bands[first_position(positions)], is_stronger_home)
             IN  IF IsError(adjusted) THEN adjusted
                 ELSE IF is_stronger_home
                 THEN Return([home_win |-> Round4(adjusted.value.stronger),
                              draw |-> Round4(adjusted.value.draw),
                              away_win |-> Round4(adjusted.value.weaker)])
                 ELSE Return([home_win |-> Round4(adjusted.value.weaker),
                              draw |-> Round4(adjusted.value.draw),
                              away_win |-> Round4(adjusted.value.stronger)])

\* {'probability': round(p, 4), 'fair_odds': round(1 / p, 2)}
market_odds(p) ==
    [probability |-> Round4(p), fair_odds |-> RoundDiv(100 * Scale, p)]

\* the definition of calculate_fair_odds at the end of the module: it is the
\* one the name is bound to after import, the earlier one being replaced
calculate_fair_odds(home_team_elo, away_team_elo, elo_bands) ==
    LET elo_diff == Abs(home_team_elo - away_team_elo)
        band_num == Min(elo_diff \div 50 + 1, 10)
        positions == band_positions(elo_bands, band_num)
        is_stronger_home == home_team_elo >= away_team_elo
    IN  IF positions = {} /\ elo_bands = << >> THEN Raise("IndexError")
        ELSE LET band_data == IF positions = {} THEN elo_bands[1]
                              ELSE elo_bands[first_position(positions)]
                 adjusted == normalize_for_venue(band_data, is_stronger_home)
             IN  IF IsError(adjusted) THEN adjusted
                 ELSE LET home_win_prob == IF is_stronger_home THEN adjusted.value.stronger
                                           ELSE adjusted.value.weaker
                          away_win_prob == IF is_stronger_home THEN adjusted.value.weaker
                                           ELSE adjusted.value.stronger
                          draw_prob == adjusted.value.draw
                      IN  IF home_win_prob = 0 \/ draw_prob = 0 \/ away_win_prob = 0
                          THEN Raise("ZeroDivisionError")
                          ELSE Return([home_win |-> market_odds(home_win_prob),
                                       draw |-> market_odds(draw_prob),
                                       away_win |-> market_odds(away_win_prob),
                                       meta |-> [elo_diff |-> elo_diff,
                                                 band |-> band_num,
                                                 stronger_team |->
                                                     IF is_stronger_home THEN "home"
                                                     ELSE "away",
                                                 home_elo |-> home_team_elo,
                                                 away_elo |-> away_team_elo]])

\* the three percentages (stronger, draw, weaker) of a band counted from
\* 1..MaxGames matches, and those of a row in which no outcome was counted
PctSamples ==
    {<<Pct(c[2], c[1]), Pct(c[3], c[1]), Pct(c[1] - c[2] - c[3], c[1])>> :
        c \in {c \in (1..MaxGames) \X (0..MaxGames) \X (0..MaxGames) :
                  c[2] + c[3] <= c[1]}}
    \cup {<<0, 0, 0>>}

band_row(band, pct) ==
    [band |-> band, stronger_win_pct |-> pct[1], draw_pct |-> pct[2],
     weaker_win_pct |-> pct[3]]

\* the bands a table lists: all ten, none, all but the first, all but the last
TableShapes ==
    {[i \in 1..10 |-> i], << >>, [i \in 1..9 |-> i + 1], [i \in 1..9 |-> i]}

\* tables of every shape, and the table computed from an empty history
BandTables ==
    {[i \in 1..Len(shape) |-> band_row(shape[i], pct)] :
        shape \in TableShapes, pct \in PctSamples}
    \cup {calculate_elo_bands(<< >>)}

InitVenue ==
    /\ NoStore
    /\ \E gap_steps \in -MaxBandSteps..MaxBandSteps, elo_bands \in BandTables :
          call = [op |-> "fixture",
                  args |-> [home_elo |-> 1500, away_elo |-> 1500 + 50 * gap_steps,
                            elo_bands |-> elo_bands]]

GetVenueAdjustedProbabilities ==
    /\ call.op = "fixture"
    /\ call' = [op |-> "get_venue_adjusted_probabilities", args |-> call.args,
                outcome |-> get_venue_adjusted_probabilities(
                                call.args.home_elo, call.args.away_elo,
                                call.args.elo_bands)]
    /\ UNCHANGED <<current_elo, key_order, elo_history, log>>

CalculateFairOdds ==
    /\ call.op = "fixture"
    /\ call' = [op |-> "calculate_fair_odds", args |-> call.args,
                outcome |-> calculate_fair_odds(
                                call.args.home_elo, call.args.away_elo,
                                call.args.elo_bands)]
    /\ UNCHANGED <<current_elo, key_order, elo_history, log>>

NextVenue == GetVenueAdjustedProbabilities \/ CalculateFairOdds

SpecVenue == InitVenue /\ [][NextVenue]_vars

\* the fixture of the call: its band, the rows of the table holding it, and
\* whether the stronger side is at home
FixtureBand == Min(Abs(call.args.home_elo - call.args.away_elo) \div 50 + 1, 10)
FixtureRows == {i \in 1..Len(call.args.elo_bands) : call.args.elo_bands[i].band = FixtureBand}
FixtureRow == call.args.elo_bands[CHOOSE i \in FixtureRows : \A j \in FixtureRows : i <= j]
StrongerIsHome == call.args.home_elo >= call.args.away_elo
HasPercentages(row) == {"stronger_win_pct", "draw_pct", "weaker_win_pct"} \subseteq DOMAIN row
RowTotal(row) == row.stronger_win_pct + row.draw_pct + row.weaker_win_pct

Returned(c) == "value" \in DOMAIN c.outcome
Markets == {"home_win", "draw", "away_win"}

\* C13: for a fixture whose band is in the table with the three percentages,
\* which do not all vanish, in either configuration, get_venue_adjusted_probabilities
\* returns three values in [0, 1] whose sum is 1.0 within 1e-4; the values
\* returned when the band is not in the table sum to exactly 1.0
C13_ProbabilitiesSumToOne ==
    call.op = "get_venue_adjusted_probabilities" =>
        LET p == call.outcome.value
            sum == p.home_win + p.draw + p.away_win
        IN  IF FixtureRows = {}
            THEN Returned(call) /\ sum = 10000
            ELSE (HasPercentages(FixtureRow) /\ RowTotal(FixtureRow) > 0) =>
                    /\ Returned(call)
                    /\ \A m \in Markets : p[m] >= 0 /\ p[m] <= 10000
                    /\ Abs(sum - 10000) <= 1

\* the stronger side is away, and the three rounded values add up to 0.9999
C13_Witness ==
    /\ call.op = "get_venue_adjusted_probabilities"
    /\ FixtureRows # {} /\ ~StrongerIsHome /\ Returned(call)
    /\ call.outcome.value.home_win + call.outcome.value.draw
         + call.outcome.value.away_win = 9999

\* C14: when no row of the table carries the band of the fixture, both
\* functions return, and what they return is the uniform-style distribution
\* (every probability between 0.333 and 0.334)
C14_BandMissDegradesToUniform ==
    (call.op \in {"get_venue_adjusted_probabilities", "calculate_fair_odds"}
       /\ FixtureRows = {}) =>
        /\ Returned(call)
        /\ \A m \in Markets :
              LET p == IF call.op = "calculate_fair_odds"
                       THEN call.outcome.value[m].probability
                       ELSE call.outcome.value[m]
              IN  p >= 3330 /\ p <= 3340

\* the reference computation on whole numbers: a percentage in ten-thousandths
\* times a multiplier in hundredths
RefShare(part, total) ==
    LET hundreds == (part * 100) \div total
        rest == (part * 100) % total
        q == hundreds * 100 + (rest * 100) \div total
        r == (rest * 100) % total
    IN  IF 2 * r > total \/ (2 * r = total /\ q % 2 = 1) THEN q + 1 ELSE q

RefProbabilities ==
    LET row == FixtureRow
        unit == Scale \div 10000
        stronger == (row.stronger_win_pct \div unit)
                      * (IF StrongerIsHome THEN HOME_ADVANTAGE_MULTIPLIER
                         ELSE AWAY_DISADVANTAGE_MULTIPLIER)
        weaker == (row.weaker_win_pct \div unit)
                      * (IF StrongerIsHome THEN AWAY_DISADVANTAGE_MULTIPLIER
                         ELSE HOME_ADVANTAGE_MULTIPLIER)
        draw == (row.draw_pct \div unit)
                      * (IF StrongerIsHome THEN DRAW_HOME_MULTIPLIER
                         ELSE DRAW_AWAY_MULTIPLIER)
        total == stronger + weaker + draw
    IN  [home_win |-> RefShare(IF StrongerIsHome THEN stronger ELSE weaker, total),
         draw |-> RefShare(draw, total),
         away_win |-> RefShare(IF StrongerIsHome THEN weaker ELSE stronger, total)]

\* C15: get_venue_adjusted_probabilities equals the reference computation: the
\* stronger side is home when home_elo >= away_elo; the stronger percentage
\* takes the home multiplier if the stronger side is home, else the away
\* multiplier, the weaker percentage the opposite one, the draw percentage the
\* draw-home or the draw-away multiplier; each is divided by the sum of the
\* three (and reported to four decimals); home_win is the stronger value
\* exactly when the stronger side is home
C15_EqualsReference ==
    (call.op = "get_venue_adjusted_probabilities"
       /\ FixtureRows # {} /\ HasPercentages(FixtureRow) /\ RowTotal(FixtureRow) > 0) =>
        /\ Returned(call)
        /\ call.outcome.value = RefProbabilities

\* a fixture with the stronger side away, in which the three percentages all
\* differ
C15_Witness ==
    /\ call.op = "get_venue_adjusted_probabilities"
    /\ FixtureRows # {} /\ Returned(call)
    /\ ~StrongerIsHome
    /\ FixtureRow.stronger_win_pct > FixtureRow.draw_pct
    /\ FixtureRow.draw_pct > FixtureRow.weaker_win_pct
    /\ FixtureRow.weaker_win_pct > 0

\* C16: in the result of calculate_fair_odds, the fair odds of every market
\* are round(1 / probability, 2) of the probability reported with them
C16_OddsInvertReportedProbability ==
    (call.op = "calculate_fair_odds" /\ Returned(call)) =>
        \A m \in Markets :
            call.outcome.value[m].fair_odds
                = RoundDiv(100 * 10000, call.outcome.value[m].probability)

\* C17: when the band selected for the fixture has a percentage of exactly 0,
\* calculate_fair_odds rejects the input or clamps the probability: it never
\* divides by zero
C17_NoDivisionByZero ==
    call.op = "calculate_fair_odds" =>
        call.outcome # Raise("ZeroDivisionError")

----------------------------------------------------------------------------
(* calculate_home_advantage_multipliers (specification SpecCalibration)    *)
(* Multipliers (round(x, 3)) are counted in thousandths, rates             *)
(* (round(x, 4)) in ten-thousandths; last_updated, the day of the run, is  *)
(* left out.                                                               *)

\* the value None of a rating
None == -1

\* match.get(key, 1500)
match_get(match, key) == IF key \in DOMAIN match THEN match[key] ELSE 1500

\* "Skip matches with missing/default ELO": the two tests before the counting
is_skipped(home_elo, away_elo) ==
    \/ home_elo = 1500 \/ away_elo = 1500
    \/ home_elo = None \/ away_elo = None

\* if home_elo > away_elo: matches between level teams count as stronger away
is_stronger_home_strict(home_elo, away_elo) == home_elo > away_elo

\* if home_elo >= away_elo
is_stronger_home(home_elo, away_elo) == home_elo >= away_elo

\* one pass of the loop body over a match
count_match(groups, match) ==
    LET home_elo == match_get(match, "home_elo")
        away_elo == match_get(match, "away_elo")
    IN  IF is_skipped(home_elo, away_elo) THEN groups
        ELSE IF is_stronger_home(home_elo, away_elo)
        THEN [groups EXCEPT
                 !.stronger_home.total = @ + 1,
                 !.stronger_home.wins =
                     IF match.home_goals > match.away_goals THEN @ + 1 ELSE @]
        ELSE [groups EXCEPT
                 !.stronger_away.total = @ + 1,
                 !.stronger_away.wins =
                     IF match.away_goals > match.home_goals THEN @ + 1 ELSE @]

\* the loop: stronger_home and stronger_away after the matches
RECURSIVE count_groups(_)
count_groups(matches_data) ==
    IF matches_data = << >>
    THEN [stronger_home |-> [wins |-> 0, total |-> 0],
          stronger_away |-> [wins |-> 0, total |-> 0]]
    ELSE count_match(count_groups(SubSeq(matches_data, 1, Len(matches_data) - 1)),
                     matches_data[Len(matches_data)])

\* the safety check asks for both groups to be empty
both_groups_empty(stronger_home, stronger_away) ==
    stronger_home.total = 0 /\ stronger_away.total = 0

\* "Safety check": stronger_home['total'] == 0 or stronger_away['total'] == 0
insufficient_data(stronger_home, stronger_away) ==
    stronger_home.total = 0 \/ stronger_away.total = 0

\* round(x, 3) and round(x, 4) of a fixed-point number
Round3(x) == RoundDiv(x, Scale \div 1000)

\* the part after the loop
multipliers_of(stronger_home, stronger_away) ==
    IF insufficient_data(stronger_home, stronger_away)
    THEN Return([home_multiplier |-> 1110, away_multiplier |-> 890,
                 error |-> "Insufficient data"])
    \* wins / total of an empty group
    ELSE IF stronger_home.total = 0 \/ stronger_away.total = 0
    THEN Raise("ZeroDivisionError")
    \* the rates, and the multipliers unless combined_rate is 0
    ELSE LET home_win_rate == DivFx(stronger_home.wins, stronger_home.total)
             away_win_rate == DivFx(stronger_away.wins, stronger_away.total)
             combined_wins == stronger_home.wins + stronger_away.wins
             combined_total == stronger_home.total + stronger_away.total
             combined_rate == DivFx(combined_wins, combined_total)
         IN  IF combined_rate = 0 THEN Raise("ZeroDivisionError")
             ELSE Return([home_multiplier |-> Round3(DivFx(home_win_rate, combined_rate)),
                          away_multiplier |-> Round3(DivFx(away_win_rate, combined_rate)),
                          home_win_rate |-> Round4(home_win_rate),
                          away_win_rate |-> Round4(away_win_rate),
                          combined_rate |-> Round4(combined_rate),
                          sample_size |-> combined_total,
                          stronger_home_games |-> stronger_home.total,
                          stronger_away_games |-> stronger_away.total])

calculate_home_advantage_multipliers(matches_data) ==
    LET groups == count_groups(matches_data)
    IN  multipliers_of(groups.stronger_home, groups.stronger_away)

\* the ratings recorded with a match: both present, or one of them missing,
\* None or the default, or both the default
RatedPairs == {<<1600, 1600>>, <<1600, 1700>>, <<1700, 1600>>}
UnratedPairs ==
    {<<1500, 1600>>, <<None, 1600>>, <<1700, 1500>>, <<1700, None>>, <<1500, 1500>>}
Results == {<<1, 0>>, <<0, 0>>, <<0, 1>>}

CalibrationMatches ==
    {[home_elo |-> p[1], away_elo |-> p[2], home_goals |-> r[1], away_goals |-> r[2]] :
        p \in RatedPairs \cup UnratedPairs, r \in Results}
    \cup {[away_elo |-> 1600, home_goals |-> r[1], away_goals |-> r[2]] : r \in Results}
    \cup {[home_elo |-> 1700, home_goals |-> r[1], away_goals |-> r[2]] : r \in Results}

InitCalibration ==
    /\ NoStore
    /\ \E n \in 0..MaxCalibrationMatches :
       \E matches_data \in [1..n -> CalibrationMatches] :
          call = [op |-> "matches_data", args |-> matches_data]

CalculateHomeAdvantageMultipliers ==
    /\ call.op = "matches_data"
    /\ call' = [op |-> "calculate_home_advantage_multipliers", args |-> call.args,
                groups |-> count_groups(call.args),
                outcome |-> calculate_home_advantage_multipliers(call.args)]
    /\ UNCHANGED <<current_elo, key_order, elo_history, log>>

NextCalibration == CalculateHomeAdvantageMultipliers

SpecCalibration == InitCalibration /\ [][NextCalibration]_vars

\* the partition of the history the contract describes
Unrated(m) ==
    \/ "home_elo" \notin DOMAIN m \/ "away_elo" \notin DOMAIN m
    \/ m.home_elo \in {None, 1500} \/ m.away_elo \in {None, 1500}
Rated == {i \in 1..Len(call.args) : ~Unrated(call.args[i])}
StrongerHomeGroup == {i \in Rated : call.args[i].home_elo >= call.args[i].away_elo}
StrongerAwayGroup == {i \in Rated : call.args[i].home_elo < call.args[i].away_elo}
HomeWins(group) == {i \in group : call.args[i].home_goals > call.args[i].away_goals}
AwayWins(group) == {i \in group : call.args[i].away_goals > call.args[i].home_goals}

\* C19: a match is discarded iff a recorded rating is missing, None or 1500;
\* every other match is counted in exactly one group, stronger-home when
\* home_elo >= away_elo and stronger-away otherwise; the wins of a group are
\* its matches won by the stronger side; and a result that reports the sizes
\* has stronger_home_games + stronger_away_games = sample_size = the number
\* of matches not discarded
C19_HistoryIsPartitioned ==
    call.op = "calculate_home_advantage_multipliers" =>
        /\ call.groups.stronger_home.total = Cardinality(StrongerHomeGroup)
        /\ call.groups.stronger_away.total = Cardinality(StrongerAwayGroup)
        /\ call.groups.stronger_home.wins = Cardinality(HomeWins(StrongerHomeGroup))
        /\ call.groups.stronger_away.wins = Cardinality(AwayWins(StrongerAwayGroup))
        /\ (Returned(call) /\ "sample_size" \in DOMAIN call.outcome.value) =>
              /\ call.outcome.value.stronger_home_games = Cardinality(StrongerHomeGroup)
              /\ call.outcome.value.stronger_away_games = Cardinality(StrongerAwayGroup)
              /\ call.outcome.value.sample_size = Cardinality(Rated)
              /\ call.outcome.value.sample_size
                   = call.outcome.value.stronger_home_games
                       + call.outcome.value.stronger_away_games

\* both groups are counted and the sizes are reported, one of the matches
\* being between level teams
C19_Witness ==
    /\ call.op = "calculate_home_advantage_multipliers"
    /\ Returned(call) /\ "sample_size" \in DOMAIN call.outcome.value
    /\ \E i \in StrongerHomeGroup : call.args[i].home_elo = call.args[i].away_elo

\* C20: when no match is left in the stronger-home group or none in the
\* stronger-away group, the result is exactly home_multiplier 1.11,
\* away_multiplier 0.89 and error 'Insufficient data', and nothing is divided
C20_DefaultsWhenAGroupIsEmpty ==
    (call.op = "calculate_home_advantage_multipliers"
       /\ (StrongerHomeGroup = {} \/ StrongerAwayGroup = {})) =>
        call.outcome = Return([home_multiplier |-> 1110, away_multiplier |-> 890,
                               error |-> "Insufficient data"])

\* a history of which one group keeps a match and the other none
C20_Witness ==
    /\ call.op = "calculate_home_advantage_multipliers"
    /\ Returned(call) /\ "error" \in DOMAIN call.outcome.value
    /\ StrongerHomeGroup # {} /\ StrongerAwayGroup = {}
    /\ Len(call.args) > Cardinality(Rated)

\* C21: for every history the call returns, with multipliers; when the
\* stronger side won a match of some group, each multiplier is its group's
\* win rate divided by the combined win rate
C21_AlwaysReturnsMultipliers ==
    call.op = "calculate_home_advantage_multipliers" =>
        /\ Returned(call)
        /\ {"home_multiplier", "away_multiplier"} \subseteq DOMAIN call.outcome.value
        /\ "sample_size" \in DOMAIN call.outcome.value =>
              LET home_wins == Cardinality(HomeWins(StrongerHomeGroup))
                  away_wins == Cardinality(AwayWins(StrongerAwayGroup))
                  combined == DivFx(home_wins + away_wins, Cardinality(Rated))
              IN  /\ call.outcome.value.home_multiplier
                       = Round3(DivFx(DivFx(home_wins, Cardinality(StrongerHomeGroup)),
                                      combined))
                  /\ call.outcome.value.away_multiplier
                       = Round3(DivFx(DivFx(away_wins, Cardinality(StrongerAwayGroup)),
                                      combined))

----------------------------------------------------------------------------
(* A run that calibrates the venue multipliers and prices fixtures         *)
(* (specification SpecRun); log holds the calls of the run in order        *)

\* histories of rated matches, so that the calibration can return multipliers
RunMatches ==
    {[home_elo |-> p[1], away_elo |-> p[2], home_goals |-> r[1], away_goals |-> r[2]] :
        p \in RatedPairs, r \in Results}

\* the fixtures priced, and the band table they are priced with
RunFixtures == {<<1600, 1500>>, <<1500, 1600>>, <<1500, 1500>>}
RunTable == [band \in 1..10 |-> band_row(band, <<Pct(2, 4), Pct(1, 4), Pct(1, 4)>>)]

Calibrated == \E i \in 1..Len(log) : log[i].op = "calculate_home_advantage_multipliers"

\* generate_all_json_files, step 9: the result is written to
\* venue_adjustment.json; nothing of the module or of the calculator changes
RunCalibration ==
    /\ Len(log) < MaxRunCalls /\ ~Calibrated
    /\ \E n \in 0..MaxCalibrationMatches : \E matches_data \in [1..n -> RunMatches] :
          /\ call' = [op |-> "calculate_home_advantage_multipliers",
                      args |-> matches_data,
                      outcome |-> calculate_home_advantage_multipliers(matches_data)]
          /\ log' = Append(log, call')
    /\ UNCHANGED <<current_elo, key_order, elo_history>>

RunProbabilities ==
    /\ Len(log) < MaxRunCalls
    /\ \E fixture \in RunFixtures :
          /\ call' = [op |-> "get_venue_adjusted_probabilities",
                      args |-> [home_elo |-> fixture[1], away_elo |-> fixture[2],
                                elo_bands |-> RunTable],
                      outcome |-> get_venue_adjusted_probabilities(
                                      fixture[1], fixture[2], RunTable)]
          /\ log' = Append(log, call')
    /\ UNCHANGED <<current_elo, key_order, elo_history>>

RunFairOdds ==
    /\ Len(log) < MaxRunCalls
    /\ \E fixture \in RunFixtures :
          /\ call' = [op |-> "calculate_fair_odds",
                      args |-> [home_elo |-> fixture[1], away_elo |-> fixture[2],
                                elo_bands |-> RunTable],
                      outcome |-> calculate_fair_odds(fixture[1], fixture[2], RunTable)]
          /\ log' = Append(log, call')
    /\ UNCHANGED <<current_elo, key_order, elo_history>>

NextRun == RunCalibration \/ RunProbabilities \/ RunFairOdds

SpecRun == Init /\ [][NextRun]_vars

\* part / total in ten-thousandths, rounded half to even, digit by digit
RECURSIVE ShareDigits(_, _, _, _)
ShareDigits(q, rest, total, digits) ==
    IF digits = 0
    THEN IF 2 * rest > total \/ (2 * rest = total /\ q % 2 = 1) THEN q + 1 ELSE q
    ELSE ShareDigits(10 * q + (10 * rest) \div total, (10 * rest) % total,
                     total, digits - 1)

ShareOf(part, total) == ShareDigits(part \div total, part % total, total, 4)

\* the probabilities of a fixture of RunTable when the stronger side's
\* percentage is multiplied by home_mult at home and away_mult away, and the
\* weaker side's the other way round (multipliers in thousandths)
ProbabilitiesWith(home_mult, away_mult, home_elo, away_elo) ==
    LET row == RunTable[Min(Abs(home_elo - away_elo) \div 50 + 1, 10)]
        unit == Scale \div 10000
        at_home == home_elo >= away_elo
        stronger == (row.stronger_win_pct \div unit)
                        * (IF at_home THEN home_mult ELSE away_mult)
        weaker == (row.weaker_win_pct \div unit)
                        * (IF at_home THEN away_mult ELSE home_mult)
        draw == (row.draw_pct \div unit)
                        * 10 * (IF at_home THEN DRAW_HOME_MULTIPLIER
                                ELSE DRAW_AWAY_MULTIPLIER)
        total == stronger + weaker + draw
    IN  [home_win |-> ShareOf(IF at_home THEN stronger ELSE weaker, total),
         draw |-> ShareOf(draw, total),
         away_win |-> ShareOf(IF at_home THEN weaker ELSE stronger, total)]

\* C22: once a calibration of the run has returned home_multiplier h and
\* away_multiplier a without an error flag, every later computation of
\* get_venue_adjusted_probabilities or calculate_fair_odds multiplies by h
\* and a: its probabilities are those of ProbabilitiesWith(h, a, ...)
C22_CalibrationIsUsed ==
    \A i \in 1..Len(log) : \A j \in 1..Len(log) :
        (/\ i < j
         /\ log[i].op = "calculate_home_advantage_multipliers"
         /\ "value" \in DOMAIN log[i].outcome
         /\ "error" \notin DOMAIN log[i].outcome.value
         /\ log[j].op \in {"get_venue_adjusted_probabilities", "calculate_fair_odds"}) =>
            LET expected == ProbabilitiesWith(log[i].outcome.value.home_multiplier,
                                              log[i].outcome.value.away_multiplier,
                                              log[j].args.home_elo, log[j].args.away_elo)
            IN  /\ "value" \in DOMAIN log[j].outcome
                /\ \A m \in Markets :
                      (IF log[j].op = "calculate_fair_odds"
                       THEN log[j].outcome.value[m].probability
                       ELSE log[j].outcome.value[m]) = expected[m]

\* the same with the built-in multipliers: what the functions do compute
BuiltInMultipliersAreUsed ==
    \A j \in 1..Len(log) :
        (log[j].op \in {"get_venue_adjusted_probabilities", "calculate_fair_odds"}) =>
            LET expected == ProbabilitiesWith(10 * HOME_ADVANTAGE_MULTIPLIER,
                                              10 * AWAY_DISADVANTAGE_MULTIPLIER,
                                              log[j].args.home_elo, log[j].args.away_elo)
            IN  /\ "value" \in DOMAIN log[j].outcome
                /\ \A m \in Markets :
                      (IF log[j].op = "calculate_fair_odds"
                       THEN log[j].outcome.value[m].probability
                       ELSE log[j].outcome.value[m]) = expected[m]

----------------------------------------------------------------------------
(* calculate_form_metrics (specification SpecForm)                         *)
(* elo_history is the map handed to the function; form_rating              *)
(* (round(x, 1)) is counted in tenths.                                     *)

RECURSIVE SumSeq(_)
SumSeq(q) == IF q = << >> THEN 0 ELSE Head(q) + SumSeq(Tail(q))

\* where a stable sort by date puts the next entry of the input: behind every
\* entry already placed that is not dated later
RECURSIVE place_by_date(_, _)
place_by_date(placed, entry) ==
    IF placed = << >> THEN <<entry>>
    ELSE IF Head(placed).date <= entry.date
         THEN <<Head(placed)>> \o place_by_date(Tail(placed), entry)
         ELSE <<entry>> \o placed

\* sorted(history, key=lambda x: x['date'])
RECURSIVE sorted_by_date(_)
sorted_by_date(history) ==
    IF history = << >> THEN << >>
    ELSE place_by_date(sorted_by_date(SubSeq(history, 1, Len(history) - 1)),
                       history[Len(history)])

\* the history is used as it is stored
sorted_history_as_stored(history) == history

sorted_history(history) == sorted_by_date(history)

\* the loop over range(len - 1, max(len - num_matches - 1, 0), -1): the
\* changes between consecutive entries, the most recent first
recent_changes(sorted, num_matches) ==
    LET len == Len(sorted)
        stop == IF len - num_matches - 1 > 0 THEN len - num_matches - 1 ELSE 0
    IN  [j \in 1..(len - 1 - stop) |-> sorted[len - j + 1].elo - sorted[len - j].elo]

\* sum(recent_changes[:k]) if len(recent_changes) >= k else sum(recent_changes)
sum_of_first(changes, k) ==
    IF Len(changes) >= k THEN SumSeq(SubSeq(changes, 1, k)) ELSE SumSeq(changes)

\* 15 itself counts as improving, -15 as declining
trend_of_inclusive(elo_change_5) ==
    IF elo_change_5 >= 15 THEN "improving"
    ELSE IF elo_change_5 <= -15 THEN "declining"
    ELSE "stable"

trend_of(elo_change_5) ==
    IF elo_change_5 > 15 THEN "improving"
    ELSE IF elo_change_5 < -15 THEN "declining"
    ELSE "stable"

\* the combined rating is not clamped
clamp_form_missing(x) == x

\* min(10, max(0, x))
clamp_form(x) ==
    IF x < 0 THEN 0 ELSE IF x > 10 * Scale THEN 10 * Scale ELSE x

\* "Enhanced form rating calculation", as a fixed-point number
form_rating_of(elo_change_5, elo_change_10) ==
    LET base_form == 5 * Scale + elo_change_5 * (Scale \div 10)
        momentum == IF elo_change_10 # 0
                    THEN elo_change_5 * (Scale \div 10) - elo_change_10 * (Scale \div 20)
                    ELSE 0
    IN  clamp_form(MulDiv(base_form, 6, 10) + MulDiv(5 * Scale + momentum, 4, 10))

\* the result for a team without two entries, with a form rating of 0
form_defaults_zero ==
    [elo_change_last_5 |-> 0, elo_change_last_10 |-> 0, trend |-> "stable",
     form_rating |-> 0]

form_defaults ==
    [elo_change_last_5 |-> 0, elo_change_last_10 |-> 0, trend |-> "stable",
     form_rating |-> 50]

calculate_form_metrics(team, history_map, num_matches) ==
    IF team \notin DOMAIN history_map \/ Len(history_map[team]) < 2
    THEN form_defaults
    ELSE LET changes == recent_changes(sorted_history(history_map[team]), num_matches)
             elo_change_5 == sum_of_first(changes, 5)
             elo_change_10 == sum_of_first(changes, 10)
         IN  [elo_change_last_5 |-> elo_change_5,
              elo_change_last_10 |-> elo_change_10,
              trend |-> trend_of(elo_change_5),
              form_rating |-> Round1(form_rating_of(elo_change_5, elo_change_10))]

\* histories of a team that gains or loses 15 points a match, dated day 1,
\* day 2, ...
RECURSIVE RatingRuns(_)
RatingRuns(n) ==
    IF n = 0 THEN {<< >>}
    ELSE IF n = 1 THEN {<<1500>>}
    ELSE {Append(r, r[n - 1] + d) : r \in RatingRuns(n - 1), d \in {-15, 15}}

\* the orders a history can be stored in: by date, latest first, and with the
\* two oldest entries behind the others
StoredOrders(n) ==
    {[i \in 1..n |-> i], [i \in 1..n |-> n + 1 - i]}
    \cup (IF n > 2 THEN {[i \in 1..n |-> IF i <= n - 2 THEN i + 2 ELSE i - (n - 2)]}
          ELSE {})

InitForm ==
    /\ current_elo = << >>
    /\ key_order = << >>
    /\ log = << >>
    /\ call = [op |-> "init"]
    /\ \/ elo_history = << >>
       \/ \E n \in 0..MaxHistoryLen : \E r \in RatingRuns(n), order \in StoredOrders(n) :
             elo_history = [t \in {"A"} |->
                               [i \in 1..n |-> [date |-> order[i], elo |-> r[order[i]]]]]

CalculateFormMetrics ==
    /\ call.op = "init"
    /\ \E team \in {"A", "B"} :
          call' = [op |-> "calculate_form_metrics", args |-> team,
                   result |-> calculate_form_metrics(team, elo_history, 10)]
    /\ UNCHANGED <<current_elo, key_order, elo_history, log>>

NextForm == CalculateFormMetrics

SpecForm == InitForm /\ [][NextForm]_vars

\* the history of the team of the call: its length, and the rating of day k
FormEntries == IF call.args \in DOMAIN elo_history THEN elo_history[call.args] ELSE << >>
RatingOfDay(k) == (CHOOSE i \in 1..Len(FormEntries) : FormEntries[i].date = k)
RatingOn(k) == FormEntries[RatingOfDay(k)].elo
Max(a, b) == IF a >= b THEN a ELSE b
FormCalled == call.op = "calculate_form_metrics"

\* C23: for a team that is not in the history map, or whose history has
\* fewer than 2 entries, the result is exactly elo_change_last_5 0,
\* elo_change_last_10 0, trend 'stable', form_rating 5.0
C23_DefaultsWithoutTwoEntries ==
    (FormCalled /\ Len(FormEntries) < 2) =>
        call.result = [elo_change_last_5 |-> 0, elo_change_last_10 |-> 0,
                       trend |-> "stable", form_rating |-> 50]

\* a team that is not in the map, and a team with one entry
C23_Witness ==
    /\ FormCalled
    /\ \/ call.args \notin DOMAIN elo_history /\ elo_history # << >>
       \/ Len(FormEntries) = 1

\* C24: for a history of n >= 2 entries with ratings r[1..n] in date order,
\* elo_change_last_5 = r[n] - r[max(n-5, 1)] and elo_change_last_10 =
\* r[n] - r[max(n-10, 1)], whatever the order the entries are stored in
C24_ChangesOfLastFiveAndTen ==
    (FormCalled /\ Len(FormEntries) >= 2) =>
        LET n == Len(FormEntries)
        IN  /\ call.result.elo_change_last_5 = RatingOn(n) - RatingOn(Max(n - 5, 1))
            /\ call.result.elo_change_last_10 = RatingOn(n) - RatingOn(Max(n - 10, 1))
            /\ call.result
                 = calculate_form_metrics(
                       "A", [t \in {"A"} |-> [k \in 1..n |-> FormEntries[RatingOfDay(k)]]], 10)

\* a history of more than eleven entries that is not stored in date order
\* and whose last five and last ten changes differ from the whole change
C24_Witness ==
    /\ FormCalled /\ Len(FormEntries) > 11
    /\ FormEntries[1].date # 1
    /\ call.result.elo_change_last_5 # call.result.elo_change_last_10
    /\ call.result.elo_change_last_10 # RatingOn(Len(FormEntries)) - RatingOn(1)

\* C25: the trend is 'improving' iff delta5 > 15, 'declining' iff
\* delta5 < -15 and 'stable' otherwise, 15 and -15 included
C25_TrendLabel ==
    FormCalled =>
        LET delta5 == call.result.elo_change_last_5
        IN  /\ call.result.trend \in {"improving", "declining", "stable"}
            /\ call.result.trend = "improving" <=> delta5 > 15
            /\ call.result.trend = "declining" <=> delta5 < -15
            /\ call.result.trend = "stable" <=> (delta5 >= -15 /\ delta5 <= 15)

\* a change of exactly 15 over the last matches
C25_Witness ==
    /\ FormCalled /\ Len(FormEntries) >= 2
    /\ call.result.elo_change_last_5 = 15

\* 0.6 * (5 + delta5 / 10) + 0.4 * (5 + momentum) in hundredths, with
\* momentum = (delta5 - delta10 / 2) / 10, or 0 when delta10 = 0
FormInHundredths(delta5, delta10) ==
    IF delta10 # 0 THEN 500 + 10 * delta5 - 2 * delta10 ELSE 500 + 6 * delta5

\* C26: form_rating lies in [0, 10] and is
\* clamp(0, 10, 0.6 * (5 + delta5 / 10) + 0.4 * (5 + momentum)) rounded to one
\* decimal
C26_FormRatingClamped ==
    FormCalled =>
        LET raw == FormInHundredths(call.result.elo_change_last_5,
                                    call.result.elo_change_last_10)
            clamped == IF raw < 0 THEN 0 ELSE IF raw > 1000 THEN 1000 ELSE raw
        IN  /\ call.result.form_rating >= 0 /\ call.result.form_rating <= 100
            /\ call.result.form_rating = RoundDiv(clamped, 10)

\* a history whose unclamped rating is above 10, and one with delta10 = 0
\* after five changes or more
C26_Witness ==
    /\ FormCalled /\ Len(FormEntries) >= 6
    /\ \/ FormInHundredths(call.result.elo_change_last_5,
                           call.result.elo_change_last_10) > 1000
       \/ call.result.elo_change_last_10 = 0

----------------------------------------------------------------------------
(* Runs of the program (specification SpecUpdate): scrape_matches,         *)
(* update_elo_ratings, generate_all_json_files.  current_elo, key_order    *)
(* and elo_history are current_elo.json and elo_history.json; call holds   *)
(* the object of the run: matches_data and, after update_elo_ratings, the  *)
(* calculator's ratings and histories.  The fields update_elo_ratings      *)
(* writes back into the match records are not read by any of the three     *)
(* and are left out.                                                       *)

\* the results a scrape can bring: one fixture per pair of teams
UpdateResults ==
    { [home_team |-> "A", away_team |-> "B", home_goals |-> 1, away_goals |-> 0],
      [home_team |-> "A", away_team |-> "C", home_goals |-> 0, away_goals |-> 0],
      [home_team |-> "B", away_team |-> "C", home_goals |-> 0, away_goals |-> 2] }

ScrapedMatch(result, day) ==
    [home_team |-> result.home_team, away_team |-> result.away_team,
     home_goals |-> result.home_goals, away_goals |-> result.away_goals,
     date |-> day]

\* the date of a team's latest entry; teams with an empty history have none
last_elo_dates(history) ==
    [t \in {u \in DOMAIN history : history[u] # << >>} |->
        sorted_by_date(history[t])[Len(history[t])].date]

\* a match dated on the day of a team's latest entry is taken again
is_new_inclusive(match, last) ==
    \/ match.date >= DictGet(last, match.home_team, 0)
    \/ match.date >= DictGet(last, match.away_team, 0)

\* "newer than our last ELO update for either team"; '1900-01-01' is day 0
is_new(match, last) ==
    \/ match.date > DictGet(last, match.home_team, 0)
    \/ match.date > DictGet(last, match.away_team, 0)

select_new(matches_data, last) ==
    LET Selected(match) == is_new(match, last)
    IN  SelectSeq(matches_data, Selected)

\* the loop over new_matches; a call that raises ends the run
RECURSIVE apply_matches(_, _)
apply_matches(calc, matches) ==
    IF matches = << >> \/ calc.raised THEN calc
    ELSE LET match == Head(matches)
             after == process_match(calc.current_elo, calc.elo_history,
                                    match.home_team, match.away_team,
                                    match.home_goals, match.away_goals,
                                    match.date, TRUE)
         IN  apply_matches(
                 [current_elo |-> after.current_elo,
                  key_order |-> IF after.call.raised THEN calc.key_order
                                ELSE commit_order(calc.key_order, match.home_team,
                                                  match.away_team),
                  elo_history |-> after.elo_history,
                  calls |-> Append(calc.calls, after.call),
                  raised |-> after.call.raised],
                 Tail(matches))

\* update_elo_ratings on the files and the matches of the run: the matches it
\* selected, in the order it applied them, and the calculator it leaves
update_elo_ratings(matches_data, file_elo, file_order, file_history) ==
    LET new_matches == sorted_by_date(select_new(matches_data, last_elo_dates(file_history)))
    IN  [new_matches |-> new_matches,
         calc |-> apply_matches([current_elo |-> file_elo, key_order |-> file_order,
                                 elo_history |-> file_history, calls |-> << >>,
                                 raised |-> FALSE],
                                new_matches)]

InitUpdate ==
    /\ current_elo = << >>
    /\ key_order = << >>
    /\ elo_history = << >>
    /\ log = << >>
    /\ call = [op |-> "init", matches_data |-> << >>, runs |-> 0]

\* a run starts: matches_data.json is loaded and the new results are appended
ScrapeMatches ==
    /\ call.op \in {"init", "generate_all_json_files"}
    /\ call.runs < MaxRuns
    /\ \E new \in {<< >>} \cup {<<ScrapedMatch(r, d)>> : r \in UpdateResults, d \in 1..MaxDays}
                  \cup {<<ScrapedMatch(r1, d1), ScrapedMatch(r2, d2)>> :
                           r1 \in UpdateResults, r2 \in UpdateResults,
                           d1 \in 1..MaxDays, d2 \in 1..MaxDays} :
          /\ Len(call.matches_data) + Len(new) <= MaxScraped
          /\ call' = [op |-> "scrape_matches", matches_data |-> call.matches_data \o new,
                      scraped |-> Len(new), runs |-> call.runs + 1]
    /\ UNCHANGED <<current_elo, key_order, elo_history, log>>

UpdateEloRatings ==
    /\ call.op = "scrape_matches"
    /\ \E run \in {update_elo_ratings(call.matches_data, current_elo, key_order, elo_history)} :
          /\ call' = [op |-> "update_elo_ratings", matches_data |-> call.matches_data,
                      scraped |-> call.scraped, runs |-> call.runs,
                      new_matches |-> run.new_matches,
                      raised |-> run.calc.raised,
                      current_elo |-> run.calc.current_elo,
                      key_order |-> run.calc.key_order,
                      elo_history |-> run.calc.elo_history]
          /\ log' = log \o run.calc.calls
    /\ UNCHANGED <<current_elo, key_order, elo_history>>

\* elo_history.json gets every history sorted by date, current_elo.json the
\* ratings in ranking order
GenerateAllJsonFiles ==
    /\ call.op = "update_elo_ratings"
    /\ ~call.raised
    /\ elo_history' = [t \in DOMAIN call.elo_history |-> sorted_by_date(call.elo_history[t])]
    /\ current_elo' = call.current_elo
    /\ key_order' = LET ranked == sorted_teams(call.current_elo, call.key_order)
                    IN  [i \in 1..Len(ranked) |-> ranked[i][1]]
    /\ call' = [op |-> "generate_all_json_files", matches_data |-> call.matches_data,
                runs |-> call.runs]
    /\ UNCHANGED log

NextUpdate == ScrapeMatches \/ UpdateEloRatings \/ GenerateAllJsonFiles

SpecUpdate == InitUpdate /\ [][NextUpdate]_vars

Updated == call.op = "update_elo_ratings"

\* C27: over any number of runs, no match is applied to a team whose history
\* already holds an entry with a later date: after update_elo_ratings the
\* entries of every history have non-decreasing dates in the order they were
\* committed
C27_AppliedInDateOrder ==
    Updated =>
        \A t \in DOMAIN call.elo_history :
            \A i \in 1..Len(call.elo_history[t]) : \A j \in 1..Len(call.elo_history[t]) :
                i < j => call.elo_history[t][i].date <= call.elo_history[t][j].date

\* C28: a run that follows a run and finds matches_data unchanged selects no
\* match, calls process_match zero times and leaves every rating and every
\* history as it loaded them
C28_SecondRunChangesNothing ==
    (Updated /\ call.scraped = 0) =>
        /\ call.new_matches = << >>
        /\ call.current_elo = current_elo
        /\ call.elo_history = elo_history
        /\ \A i \in 1..Len(log) : \A j \in 1..Len(log) :
              (i < j /\ log[i].args.home_team = log[j].args.home_team
                     /\ log[i].args.away_team = log[j].args.away_team)
                  => log[i].args.match_date # log[j].args.match_date
                     \/ Len(SelectSeq(call.matches_data,
                              LAMBDA m : m.home_team = log[i].args.home_team
                                         /\ m.away_team = log[i].args.away_team
                                         /\ m.date = log[i].args.match_date)) > 1

\* a run without new results after a run that applied two matches
C28_Witness ==
    /\ Updated /\ call.scraped = 0
    /\ Len(log) >= 2
    /\ Len(call.matches_data) >= 2

----------------------------------------------------------------------------
(* Conservation of rating points (specification Spec)                      *)

\* the ratings of the store, in insertion order
RatingsInOrder == [i \in 1..Len(key_order) |-> current_elo[key_order[i]]]

\* C29: process_match between two distinct teams conserves rating points:
\* the two deltas are equal and opposite, the two committed ratings sum to
\* the two pre-match ratings, and after any sequence of matches from an empty
\* store the ratings total 1500 times the number of teams
C29_PointsConserved ==
    /\ Completed(call) =>
          /\ call.result[3] + call.result[4] = 0
          /\ call.result[1] + call.result[2] = call.args.home_elo + call.args.away_elo
    /\ Len(key_order) = Cardinality(DOMAIN current_elo)
    /\ SumSeq(RatingsInOrder) = 1500 * Cardinality(DOMAIN current_elo)

\* a second match between teams that are no longer level, moving points
C29_Witness ==
    /\ Len(log) = 2 /\ Completed(call)
    /\ call.args.home_elo # call.args.away_elo
    /\ call.result[3] # 0
    /\ Cardinality(DOMAIN current_elo) = 3

----------------------------------------------------------------------------
(* Matches and reads on one store (specification SpecFrame)                *)

FrameScores == {<<1, 0>>, <<0, 0>>}

\* the teams a caller may ask about; D never plays
Queried == Teams \cup {"D"}

FrameMatch ==
    /\ Len(log) < MaxFrameMatches
    /\ \E home_team \in Teams : \E away_team \in Teams \ {home_team} :
       \E score \in FrameScores :
            ProcessMatchCall(home_team, away_team, score[1], score[2],
                             Len(log) + 1, TRUE)

ReadCurrentElo ==
    /\ \E team \in Queried :
          call' = [op |-> "get_current_elo", args |-> <<team>>,
                   result |-> get_current_elo(current_elo, team)]
    /\ UNCHANGED <<current_elo, key_order, elo_history, log>>

ReadEloDiff ==
    /\ \E team1 \in Queried, team2 \in Queried :
          call' = [op |-> "get_elo_diff", args |-> <<team1, team2>>,
                   result |-> get_elo_diff(current_elo, team1, team2)]
    /\ UNCHANGED <<current_elo, key_order, elo_history, log>>

ReadEloBand ==
    /\ \E team1 \in Queried, team2 \in Queried :
          call' = [op |-> "get_elo_band", args |-> <<team1, team2>>,
                   result |-> get_elo_band(current_elo, team1, team2)]
    /\ UNCHANGED <<current_elo, key_order, elo_history, log>>

ReadRankings ==
    /\ call' = [op |-> "get_rankings", args |-> << >>,
                result |-> get_rankings(current_elo, key_order)]
    /\ UNCHANGED <<current_elo, key_order, elo_history, log>>

NextFrame == FrameMatch \/ ReadCurrentElo \/ ReadEloDiff \/ ReadEloBand \/ ReadRankings

SpecFrame == Init /\ [][NextFrame]_vars

ReadOperations == {"get_current_elo", "get_elo_diff", "get_elo_band", "get_rankings"}

\* what a step may change: a match only its two participants, a read nothing
FrameStep ==
    /\ DOMAIN current_elo \subseteq DOMAIN current_elo'
    /\ DOMAIN elo_history \subseteq DOMAIN elo_history'
    /\ call'.op = "process_match" =>
          /\ \A t \in DOMAIN current_elo \ Participants(call') :
                current_elo'[t] = current_elo[t]
          /\ \A t \in DOMAIN elo_history \ Participants(call') :
                elo_history'[t] = elo_history[t]
          /\ DOMAIN current_elo' \subseteq DOMAIN current_elo \cup Participants(call')
          /\ DOMAIN elo_history' \subseteq DOMAIN elo_history \cup Participants(call')
    /\ call'.op \in ReadOperations =>
          /\ current_elo' = current_elo
          /\ elo_history' = elo_history

\* C30: process_match changes only the ratings and histories of its two
\* participants and removes no team; get_current_elo, get_elo_diff,
\* get_elo_band and get_rankings change neither ratings nor histories, and
\* an unknown team they are asked about is not added
C30_OnlyParticipantsChange == [][FrameStep]_vars

\* a team with a history sat out the second match, and a team that is not in
\* the store has just been asked about
C30_Witness ==
    /\ Len(log) = 2
    /\ Participants(log[1]) # Participants(log[2])
    /\ call.op = "get_current_elo"
    /\ call.args[1] \notin DOMAIN current_elo
====
